---- MODULE Spec2Model ----
(***************************************************************************)
(* A model of rosm_mvt's tile writer (src/src/write.rs): the geometry      *)
(* encoder (Geometry::encode, encode_geometry), the attribute interner and *)
(* the layer and tile constructors (Layer::new, Tile::new).                *)
(***************************************************************************)
EXTENDS Integers, Sequences, FiniteSets, TLC

\* ------------------------------------------------------------------------
\* Bounds of the model
\* ------------------------------------------------------------------------

\* most points of an input geometry, over all its lines or rings
MaxPoints == 6

\* most lines of a MultiLine, most rings (exterior included) of a Polygon
MaxParts == 2

\* ------------------------------------------------------------------------
\* Machine integers
\* ------------------------------------------------------------------------

\* Width in bits of the model's machine integers. The code computes in i32
\* and u32; the model keeps every shift, wrap and range check of the code
\* and scales the width, so that the ends of the range are within reach.
IntBits == 8

Pow2(n) == 2 ^ n

\* the value of a signed computation, wrapped to two's complement
Wrap32(n) ==
  LET m == n % Pow2(IntBits) IN
    IF m >= Pow2(IntBits - 1) THEN m - Pow2(IntBits) ELSE m

\* whether the mathematical value leaves the range of the signed type
Overflows32(n) == n < -Pow2(IntBits - 1) \/ n >= Pow2(IntBits - 1)

\* `x as u32` of a signed value
AsU32(n) == n % Pow2(IntBits)

\* bitwise exclusive or of two non-negative integers
RECURSIVE BitXor(_, _)
BitXor(a, b) ==
  IF a = 0 THEN b
  ELSE IF b = 0 THEN a
  ELSE (((a % 2) + (b % 2)) % 2) + 2 * BitXor(a \div 2, b \div 2)

\* ------------------------------------------------------------------------
\* Commands and their encoding
\* ------------------------------------------------------------------------

MoveTo(coord) == [k |-> "MoveTo", c |-> coord]
LineTo(coord) == [k |-> "LineTo", c |-> coord]
ClosePath == [k |-> "ClosePath", c |-> <<0, 0>>]

\* encode_command with the count shifted by two bits only
encode_command_shift2(command, count) ==
  CASE command.k = "MoveTo" -> 1 + count * 4
    [] command.k = "LineTo" -> 2 + count * 4
    [] command.k = "ClosePath" -> 7

encode_command(command, count) ==
  CASE command.k = "MoveTo" -> 1 + count * 8
    [] command.k = "LineTo" -> 2 + count * 8
    [] command.k = "ClosePath" -> 7

\* encode_param without the sign: (param << 1) as u32
encode_param_unsigned(param) == AsU32(Wrap32(param * 2))

\* ((param << 1) ^ (param >> 31)) as u32; the arithmetic shift by all bits
\* but the sign leaves 0 or -1
encode_param(param) ==
  BitXor(AsU32(Wrap32(param * 2)), AsU32(IF param < 0 THEN -1 ELSE 0))

\* to - from, componentwise, in i32
diff_to(from, to) == <<Wrap32(to[1] - from[1]), Wrap32(to[2] - from[2])>>

\* whether to - from overflows i32 in a component
diff_overflows(from, to) ==
  Overflows32(to[1] - from[1]) \/ Overflows32(to[2] - from[2])

\* The closure flush_command_buffer, applied to the slice cmds[lo..hi] of the
\* command list: the command word of the run, then for each command of the
\* slice its delta to the cursor, which moves on. `panic` is set by the
\* assertion on a ClosePath in the slice and, in a build that checks
\* arithmetic (checked = TRUE), by an overflowing subtraction.
RECURSIVE flush_params(_, _, _, _, _, _)
flush_params(cmds, lo, hi, ec, cur, checked) ==
  IF lo > hi THEN [ec |-> ec, cursor |-> cur, panic |-> FALSE]
  ELSE IF cmds[lo].k = "ClosePath" THEN [ec |-> ec, cursor |-> cur, panic |-> TRUE]
  ELSE IF checked /\ diff_overflows(cur, cmds[lo].c)
    THEN [ec |-> ec, cursor |-> cur, panic |-> TRUE]
  ELSE LET d == diff_to(cur, cmds[lo].c) IN
       flush_params(cmds, lo + 1, hi,
                    ec \o <<encode_param(d[1]), encode_param(d[2])>>,
                    cmds[lo].c, checked)

flush_command_buffer(cmds, cb, ec, cur, checked) ==
  IF cb[2] < cb[1] THEN [ec |-> ec, cursor |-> cur, panic |-> FALSE]
  ELSE flush_params(cmds, cb[1], cb[2],
                    Append(ec, encode_command(cmds[cb[1]], cb[2] - cb[1] + 1)),
                    cur, checked)

\* the empty slice
EmptyBuffer == <<1, 0>>

\* ------------------------------------------------------------------------
\* Validation of lines and rings
\* ------------------------------------------------------------------------

\* the commands of a line or ring: MoveTo the first point, LineTo the others
PathCommands(path) ==
  [i \in 1..Len(path) |-> IF i = 1 THEN MoveTo(path[i]) ELSE LineTo(path[i])]

\* encode_line with the minimum length checked before emptiness
encode_line_lengthfirst(line, commands) ==
  IF Len(line) < 2 THEN [err |-> "InvalidLineGeometry", commands |-> commands]
  ELSE IF Len(line) = 0 THEN [err |-> "EmptyLineGeometry", commands |-> commands]
  ELSE [err |-> "", commands |-> commands \o PathCommands(line)]

encode_line(line, commands) ==
  IF Len(line) = 0 THEN [err |-> "EmptyLineGeometry", commands |-> commands]
  ELSE IF Len(line) < 2 THEN [err |-> "InvalidLineGeometry", commands |-> commands]
  ELSE [err |-> "", commands |-> commands \o PathCommands(line)]

\* the accumulations of the area without the two closing products
AreaTerms_open(ring) ==
  LET n == Len(ring) IN
    [i \in 1..(n - 1) |-> [sub |-> FALSE, p |-> ring[i][1] * ring[i + 1][2]]]
    \o <<[sub |-> FALSE, p |-> 0]>>
    \o [i \in 1..(n - 1) |-> [sub |-> TRUE, p |-> ring[i + 1][1] * ring[i][2]]]
    \o <<[sub |-> TRUE, p |-> 0]>>

\* The accumulations of encode_ring's area, in the order of the code: the
\* products added (the closing one last), then the products subtracted.
AreaTerms(ring) ==
  LET n == Len(ring) IN
    [i \in 1..(n - 1) |-> [sub |-> FALSE, p |-> ring[i][1] * ring[i + 1][2]]]
    \o <<[sub |-> FALSE, p |-> ring[n][1] * ring[1][2]]>>
    \o [i \in 1..(n - 1) |-> [sub |-> TRUE, p |-> ring[i + 1][1] * ring[i][2]]]
    \o <<[sub |-> TRUE, p |-> ring[1][1] * ring[n][2]]>>

\* area after the first k accumulations, in i32; ovf once a product or a
\* partial sum has left the range of i32
RECURSIVE AreaAcc(_, _)
AreaAcc(terms, k) ==
  IF k = 0 THEN [area |-> 0, ovf |-> FALSE]
  ELSE LET prev == AreaAcc(terms, k - 1)
           p == Wrap32(terms[k].p)
           sum == IF terms[k].sub THEN prev.area - p ELSE prev.area + p
       IN [area |-> Wrap32(sum),
           ovf |-> prev.ovf \/ Overflows32(terms[k].p) \/ Overflows32(sum)]

encode_ring(ring, commands, checked) ==
  IF Len(ring) = 0
    THEN [err |-> "EmptyPolygonGeometry", area |-> 0, commands |-> commands]
  ELSE IF Len(ring) < 3
    THEN [err |-> "InvalidPolygonGeometry", area |-> 0, commands |-> commands]
  ELSE LET acc == AreaAcc(AreaTerms(ring), 2 * Len(ring)) IN
       IF checked /\ acc.ovf
         THEN [err |-> "panic", area |-> 0, commands |-> commands]
       ELSE IF acc.area = 0
         THEN [err |-> "InvalidPolygonGeometry", area |-> 0, commands |-> commands]
       ELSE [err |-> "", area |-> acc.area,
             commands |-> commands \o PathCommands(ring) \o <<ClosePath>>]

\* the loop over the lines of a MultiLine, stopping at the first error
RECURSIVE encode_lines(_, _, _)
encode_lines(lines, i, commands) ==
  IF i > Len(lines) THEN [err |-> "", commands |-> commands]
  ELSE LET r == encode_line(lines[i], commands) IN
       IF r.err # "" THEN r ELSE encode_lines(lines, i + 1, r.commands)

\* the loop over the interior rings of a Polygon, stopping at the first error
RECURSIVE encode_interiors(_, _, _, _)
encode_interiors(rings, i, commands, checked) ==
  IF i > Len(rings) THEN [err |-> "", commands |-> commands]
  ELSE LET r == encode_ring(rings[i], commands, checked) IN
       IF r.err # "" THEN [err |-> r.err, commands |-> commands]
       ELSE IF r.area > 0
         THEN [err |-> "InvalidPolygonGeometry", commands |-> commands]
       ELSE encode_interiors(rings, i + 1, r.commands, checked)

\* ------------------------------------------------------------------------
\* Inputs of the geometry encoder
\* ------------------------------------------------------------------------

\* coordinates of the points, point lists and lines: deltas that are zero,
\* negative, positive and close to the ends of the signed range, all within it
LinePts == {<<-1, 2>>, <<Pow2(IntBits - 2) - 1, -Pow2(IntBits - 2)>>}

\* coordinates of a single line: those, and the corner of the signed range,
\* which is further from <<-1, 2>> than the signed type can tell
EdgePts == LinePts \cup {<<Pow2(IntBits - 1) - 1, -Pow2(IntBits - 1)>>}

\* a ring that winds as an exterior ring does, and whose area has a product
\* beyond the signed range
WideRing ==
  LET h == Pow2(IntBits \div 2) IN <<<<0, 0>>, <<h, 0>>, <<0, h>>>>

\* coordinates of the rings: three points that are not collinear
RingPts == {<<0, 0>>, <<2, 1>>, <<-1, 2>>}

\* the sequences over S of length at most n
SeqsUpTo(S, n) == UNION {[1..k -> S] : k \in 0..n}

\* the sum of the first k entries of a sequence of numbers
RECURSIVE SumTo(_, _)
SumTo(lens, k) == IF k = 0 THEN 0 ELSE SumTo(lens, k - 1) + lens[k]

\* the parts of the lengths lens, cut in this order out of the sequence flat
SplitParts(flat, lens) ==
  [i \in 1..Len(lens) |-> SubSeq(flat, SumTo(lens, i - 1) + 1, SumTo(lens, i))]

\* g is of this kind and its parts are at least least and at most MaxParts
\* sequences over S, of at most MaxPoints elements in all
IsPartsGeometry(g, kind, S, least) ==
  \E k \in least..MaxParts :
    \E lens \in [1..k -> 0..MaxPoints] :
      /\ SumTo(lens, k) <= MaxPoints
      /\ \E flat \in [1..SumTo(lens, k) -> S] :
           g = [kind |-> kind, parts |-> SplitParts(flat, lens)]

\* A geometry is its kind and its parts: the point of a Point, the point
\* list of a MultiPoint, the line of a Line, the lines of a MultiLine, the
\* exterior ring of a Polygon followed by its interior rings.
IsGeometry(g) ==
  \/ \E p \in LinePts : g = [kind |-> "Point", parts |-> <<<<p>>>>]
  \/ \E ps \in SeqsUpTo(LinePts, MaxPoints) : g = [kind |-> "MultiPoint", parts |-> <<ps>>]
  \/ \E l \in SeqsUpTo(EdgePts, MaxPoints) : g = [kind |-> "Line", parts |-> <<l>>]
  \/ IsPartsGeometry(g, "MultiLine", LinePts, 0)
  \/ IsPartsGeometry(g, "Polygon", RingPts, 1)
  \/ g = [kind |-> "Polygon", parts |-> <<WideRing>>]

\* ------------------------------------------------------------------------
\* State
\* ------------------------------------------------------------------------

VARIABLES
  geometry,          \* the Geometry that encode is called on
  gpc,               \* "encode": before validation; "loop": in the loop of
                     \* encode_geometry; "done": encode has returned
  commands,          \* the Vec<Command> handed to encode_geometry
  idx,               \* index of the next command of the loop (from 1)
  start,             \* start of the current run, 0 for None
  command_buffer,    \* the slice <<first, last>> of commands in the buffer
  cursor,            \* the cursor of move_cursor
  encoded_commands,  \* the words emitted so far
  gresult            \* "none", "Ok", "panic" or the InvalidGeometry returned

gvars == <<geometry, gpc, commands, idx, start, command_buffer, cursor,
           encoded_commands, gresult>>

\* Layer::new and its two passes over the features
VARIABLES
  features,          \* the Vec<Feature> handed to Layer::new; each feature is
                     \* its id (<<>> for None, <<n>> for Some(n)), its tags and
                     \* its encoded_tags
  lpc,               \* "new", "tags" (in encode_features_tags), "features"
                     \* (in encode_features), "done"
  fi,                \* index of the feature at hand (from 1)
  ti,                \* index of the tag at hand in that feature (from 1)
  keys,              \* the key table
  key_lookup,        \* the map from key to index
  values,            \* the value table
  key_indices,       \* the key indices seen in the feature at hand
  encoded_features,  \* the features lowered so far
  ids,               \* the ids seen so far
  lresult,           \* <<"none">>, <<"Ok">> or the SpecViolation returned
  layer              \* the Layer returned, <<>> before

lvars == <<features, lpc, fi, ti, keys, key_lookup, values, key_indices,
           encoded_features, ids, lresult, layer>>

\* Tile::new and Tile::write
VARIABLES
  layers,            \* the Vec<Layer> handed to Tile::new
  tpc,               \* "new", "names" (in the loop over the layers), "done"
  li,                \* index of the layer at hand (from 1)
  names,             \* the names seen so far
  tresult,           \* <<"none">>, <<"Ok">> or the SpecViolation returned
  tile,              \* the Tile returned, <<>> before
  sink,              \* the layers of the message that the writer has taken
  sink_error,        \* the io::Error the writer answered with, "none" if none
  wresult            \* <<"none">>, then how Tile::write ended: <<"returned">>
                     \* or <<"panic", error>>

tvars == <<layers, tpc, li, names, tresult, tile, sink, sink_error, wresult>>

vars == <<gvars, lvars, tvars>>

\* the encoder with nothing to encode
GIdle ==
  /\ geometry = [kind |-> "Point", parts |-> <<<<<<0, 0>>>>>>]
  /\ gpc = "done"
  /\ commands = <<>>
  /\ idx = 1
  /\ start = 0
  /\ command_buffer = <<1, 0>>
  /\ cursor = <<0, 0>>
  /\ encoded_commands = <<>>
  /\ gresult = "none"

\* no layer under construction
LIdle ==
  /\ features = <<>>
  /\ lpc = "done"
  /\ fi = 1
  /\ ti = 1
  /\ keys = <<>>
  /\ key_lookup = <<>>
  /\ values = <<>>
  /\ key_indices = {}
  /\ encoded_features = <<>>
  /\ ids = {}
  /\ lresult = <<"none">>
  /\ layer = <<>>

\* no tile under construction
TIdle ==
  /\ layers = <<>>
  /\ tpc = "done"
  /\ li = 1
  /\ names = {}
  /\ tresult = <<"none">>
  /\ tile = <<>>
  /\ sink = <<>>
  /\ sink_error = "none"
  /\ wresult = <<"none">>

GInit ==
  /\ IsGeometry(geometry)
  /\ gpc = "encode"
  /\ commands = <<>>
  /\ idx = 1
  /\ start = 0
  /\ command_buffer = EmptyBuffer
  /\ cursor = <<0, 0>>
  /\ encoded_commands = <<>>
  /\ gresult = "none"
  /\ LIdle
  /\ TIdle

\* encode returns the error err
Fail(err) ==
  /\ gpc' = "done"
  /\ gresult' = err
  /\ UNCHANGED <<geometry, commands, idx, start, command_buffer, cursor,
                 encoded_commands, lvars, tvars>>

\* encode calls encode_geometry on cmds
EnterLoop(cmds) ==
  /\ gpc' = "loop"
  /\ commands' = cmds
  /\ UNCHANGED <<geometry, idx, start, command_buffer, cursor,
                 encoded_commands, gresult, lvars, tvars>>

EncodePoint ==
  /\ gpc = "encode" /\ geometry.kind = "Point"
  /\ EnterLoop(<<MoveTo(geometry.parts[1][1])>>)

EncodeMultiPoint ==
  /\ gpc = "encode" /\ geometry.kind = "MultiPoint"
  /\ LET points == geometry.parts[1] IN
       IF Len(points) = 0 THEN Fail("EmptyPointGeometry")
       ELSE EnterLoop([i \in 1..Len(points) |-> MoveTo(points[i])])

EncodeLine ==
  /\ gpc = "encode" /\ geometry.kind = "Line"
  /\ LET line == geometry.parts[1] IN
       IF Len(line) = 0 THEN Fail("EmptyLineGeometry")
       ELSE LET r == encode_line(line, <<>>) IN
            IF r.err # "" THEN Fail(r.err) ELSE EnterLoop(r.commands)

EncodeMultiLine ==
  /\ gpc = "encode" /\ geometry.kind = "MultiLine"
  /\ LET lines == geometry.parts IN
       IF Len(lines) = 0 THEN Fail("EmptyLineGeometry")
       ELSE LET r == encode_lines(lines, 1, <<>>) IN
            IF r.err # "" THEN Fail(r.err) ELSE EnterLoop(r.commands)

EncodePolygon ==
  /\ gpc = "encode" /\ geometry.kind = "Polygon"
  /\ \E checked \in BOOLEAN :
       LET exterior_ring == geometry.parts[1]
           interior_rings == Tail(geometry.parts)
       IN IF Len(exterior_ring) = 0 THEN Fail("EmptyPolygonGeometry")
          ELSE LET e == encode_ring(exterior_ring, <<>>, checked) IN
               IF e.err # "" THEN Fail(e.err)
               ELSE IF e.area < 0 THEN Fail("InvalidPolygonGeometry")
               ELSE LET r == encode_interiors(interior_rings, 1, e.commands, checked) IN
                    IF r.err # "" THEN Fail(r.err) ELSE EnterLoop(r.commands)

\* the last command of the buffer is of kind k
BufferLastIs(k) ==
  /\ command_buffer[2] >= command_buffer[1]
  /\ commands[command_buffer[2]].k = k

\* The arm of the loop for a MoveTo or a LineTo: the buffer is flushed when
\* it ends with a command of the other kind, then it is extended up to this
\* command.
ExtendRun(other) ==
  \E checked \in BOOLEAN :
    LET flushes == BufferLastIs(other)
        f == IF flushes
               THEN flush_command_buffer(commands, command_buffer,
                                         encoded_commands, cursor, checked)
               ELSE [ec |-> encoded_commands, cursor |-> cursor, panic |-> FALSE]
        st == IF flushes \/ start = 0 THEN idx ELSE start
    IN IF f.panic
         THEN /\ gpc' = "done" /\ gresult' = "panic"
              /\ UNCHANGED <<geometry, commands, idx, start, command_buffer,
                             cursor, encoded_commands, lvars, tvars>>
         ELSE /\ encoded_commands' = f.ec
              /\ cursor' = f.cursor
              /\ start' = st
              /\ command_buffer' = <<st, idx>>
              /\ idx' = idx + 1
              /\ UNCHANGED <<geometry, commands, gpc, gresult, lvars, tvars>>

\* one iteration of the loop on a MoveTo
StepMoveTo ==
  /\ gpc = "loop" /\ idx <= Len(commands) /\ commands[idx].k = "MoveTo"
  /\ ExtendRun("LineTo")

\* one iteration of the loop on a LineTo
StepLineTo ==
  /\ gpc = "loop" /\ idx <= Len(commands) /\ commands[idx].k = "LineTo"
  /\ ExtendRun("MoveTo")

\* One iteration of the loop on a ClosePath: its word is pushed at once, the
\* buffer is left as it is.
StepClosePath ==
  /\ gpc = "loop" /\ idx <= Len(commands) /\ commands[idx].k = "ClosePath"
  /\ encoded_commands' = Append(encoded_commands, encode_command(commands[idx], 0))
  /\ idx' = idx + 1
  /\ UNCHANGED <<geometry, gpc, commands, start, command_buffer, cursor, gresult,
                 lvars, tvars>>

\* After the loop: the last flush, and encode returns the EncodedGeometry.
FinalFlush ==
  /\ gpc = "loop" /\ idx > Len(commands)
  /\ \E checked \in BOOLEAN :
       LET f == flush_command_buffer(commands, command_buffer,
                                     encoded_commands, cursor, checked)
       IN IF f.panic
            THEN /\ gresult' = "panic"
                 /\ UNCHANGED <<encoded_commands, cursor, command_buffer>>
            ELSE /\ encoded_commands' = f.ec
                 /\ cursor' = f.cursor
                 /\ command_buffer' = EmptyBuffer
                 /\ gresult' = "Ok"
  /\ gpc' = "done"
  /\ UNCHANGED <<geometry, commands, idx, start, lvars, tvars>>

GNext ==
  \/ EncodePoint
  \/ EncodeMultiPoint
  \/ EncodeLine
  \/ EncodeMultiLine
  \/ EncodePolygon
  \/ StepMoveTo
  \/ StepLineTo
  \/ StepClosePath
  \/ FinalFlush

SpecGeometry == GInit /\ [][GNext]_vars

\* ------------------------------------------------------------------------
\* Reading a command stream back
\* ------------------------------------------------------------------------

\* The command words of a stream from word i on, each with its id (low three
\* bits), its count (the other bits) and its parameter words: two for each
\* repetition of a MoveTo (1) or LineTo (2), none for any other id.
RECURSIVE ParseStream(_, _)
ParseStream(words, i) ==
  IF i > Len(words) THEN <<>>
  ELSE LET id == words[i] % 8
           count == words[i] \div 8
           n == IF id \in {1, 2} THEN 2 * count ELSE 0
           last == IF i + n > Len(words) THEN Len(words) ELSE i + n
       IN <<[id |-> id, count |-> count, word |-> words[i],
             params |-> SubSeq(words, i + 1, last)]>>
          \o ParseStream(words, i + n + 1)

\* the parameter words of a stream, in order
RECURSIVE StreamParams(_)
StreamParams(runs) ==
  IF runs = <<>> THEN <<>> ELSE Head(runs).params \o StreamParams(Tail(runs))

\* the ids of the command words of a stream, in order
StreamIds(words) ==
  LET runs == ParseStream(words, 1) IN [i \in 1..Len(runs) |-> runs[i].id]

\* the inverse of the zigzag encoding: (w >> 1) ^ -(w & 1)
UnZigzag(w) == IF w % 2 = 0 THEN w \div 2 ELSE -(w \div 2) - 1

\* The points a reader draws: from a cursor at (0,0), each pair of
\* parameters is un-zigzagged and added to the cursor.
RECURSIVE DecodeFrom(_, _, _)
DecodeFrom(params, i, cur) ==
  IF i + 1 > Len(params) THEN <<>>
  ELSE LET pt == <<cur[1] + UnZigzag(params[i]), cur[2] + UnZigzag(params[i + 1])>>
       IN <<pt>> \o DecodeFrom(params, i + 2, pt)

Decode(words) == DecodeFrom(StreamParams(ParseStream(words, 1)), 1, <<0, 0>>)

\* the points of a geometry, in input order over all its parts
RECURSIVE Flatten(_)
Flatten(parts) ==
  IF parts = <<>> THEN <<>> ELSE Head(parts) \o Flatten(Tail(parts))

\* s is the beginning of t
IsPrefix(s, t) == Len(s) <= Len(t) /\ s = SubSeq(t, 1, Len(s))

\* every difference of consecutive points, the first from (0,0), is in range
DiffsFit(points) ==
  \A i \in 1..Len(points) :
    ~diff_overflows(IF i = 1 THEN <<0, 0>> ELSE points[i - 1], points[i])

\* ------------------------------------------------------------------------
\* C1: for every geometry that encode accepts and whose consecutive
\* coordinate differences fit in the signed type, the emitted words decode
\* (cursor from (0,0), un-zigzag each parameter pair, add it to the cursor)
\* to exactly the input's points in input order over all parts; and while
\* encoding, the words emitted so far decode to the first points of the
\* input, the last of which is where the encoder's cursor stands.
\* ------------------------------------------------------------------------
C1_RoundTrip ==
  DiffsFit(Flatten(geometry.parts)) =>
    LET points == Flatten(geometry.parts)
        read == Decode(encoded_commands)
    IN /\ gresult = "Ok" => read = points
       /\ gpc \in {"loop", "done"} /\ gresult \in {"none", "Ok"} =>
            /\ IsPrefix(read, points)
            /\ cursor = IF read = <<>> THEN <<0, 0>> ELSE read[Len(read)]

\* two lines have been encoded, with a delta near the end of the range
C1_Witness ==
  /\ gresult = "Ok"
  /\ geometry.kind = "MultiLine" /\ Len(geometry.parts) = 2
  /\ \E i \in 1..Len(encoded_commands) : encoded_commands[i] >= Pow2(IntBits - 1)

\* ------------------------------------------------------------------------
\* The order of the command words
\* ------------------------------------------------------------------------

CommandId(k) ==
  CASE k = "MoveTo" -> 1 [] k = "LineTo" -> 2 [] k = "ClosePath" -> 7

\* the ids of the runs of a command list: one for each maximal run of
\* MoveTo or of LineTo, one for each ClosePath
RECURSIVE RunIds(_, _)
RunIds(cmds, i) ==
  IF i > Len(cmds) THEN <<>>
  ELSE IF i > 1 /\ cmds[i].k = cmds[i - 1].k /\ cmds[i].k # "ClosePath"
    THEN RunIds(cmds, i + 1)
  ELSE <<CommandId(cmds[i].k)>> \o RunIds(cmds, i + 1)

\* C2: the command words of the stream appear in the order of the drawing
\* commands they encode, with a run boundary at every change of kind,
\* ClosePath included: at every moment the ids of the command words emitted
\* so far are the beginning of the ids of the runs of the command list, so
\* that every ring gives MoveTo, LineTo, ClosePath in this order and no
\* ClosePath word comes before the LineTo run of its ring.
C2_CommandOrder ==
  /\ gpc \in {"loop", "done"} =>
       IsPrefix(StreamIds(encoded_commands), RunIds(commands, 1))
  /\ gresult = "Ok" => StreamIds(encoded_commands) = RunIds(commands, 1)

\* ------------------------------------------------------------------------
\* C3: every ClosePath command word of the stream carries a count: it is
\* (7 & 0x7) | (1 << 3), that is 15.
\* ------------------------------------------------------------------------
C3_ClosePathCount ==
  LET runs == ParseStream(encoded_commands, 1) IN
    \A i \in 1..Len(runs) : runs[i].id = 7 => runs[i].word = 7 + 1 * 8

\* ------------------------------------------------------------------------
\* The outcomes of encode
\* ------------------------------------------------------------------------

InvalidGeometry ==
  {"EmptyPointGeometry", "EmptyLineGeometry", "InvalidLineGeometry",
   "EmptyPolygonGeometry", "InvalidPolygonGeometry"}

\* C11: for every geometry, whatever its coordinates in the signed range,
\* encode ends with an EncodedGeometry or with one of the five
\* InvalidGeometry kinds and never panics: neither on an overflow of the
\* cursor delta, of the area of a ring or of the zigzag shift, nor on the
\* assertion of the run flush.
C11_NeverPanics ==
  gpc = "done" /\ gresult # "none" => gresult \in {"Ok"} \cup InvalidGeometry

\* ------------------------------------------------------------------------
\* Runs and their counts
\* ------------------------------------------------------------------------

\* the zigzag encoding of a value whose double is in range
Zigzag(v) == IF v >= 0 THEN 2 * v ELSE -2 * v - 1

\* the command words a reader expects for lines of these lengths: for each
\* line a MoveTo of count 1, then a LineTo of one less than its length
RECURSIVE LineWords(_)
LineWords(lines) ==
  IF lines = <<>> THEN <<>>
  ELSE <<1 + 8 * 1, 2 + 8 * (Len(Head(lines)) - 1)>> \o LineWords(Tail(lines))

\* C13: in every stream that encode returns, each MoveTo or LineTo command
\* word is id | (count << 3) with a count of at least 1 and is followed by
\* exactly 2 * count parameter words, every other word is the ClosePath
\* word, and no two command words next to each other are both MoveTo or
\* both LineTo; a MultiPoint of n points gives one MoveTo word of count n
\* and 1 + 2n words in all, a Point gives <<9, zigzag(x), zigzag(y)>>, and
\* every line of n points of a Line or MultiLine gives a MoveTo word of
\* count 1 followed by a LineTo word of count n - 1.
C13_ExactRuns ==
  gresult = "Ok" =>
    LET runs == ParseStream(encoded_commands, 1)
        words == [i \in 1..Len(runs) |-> runs[i].word]
        points == Flatten(geometry.parts)
    IN /\ \A i \in 1..Len(runs) :
            /\ runs[i].id \in {1, 2, 7}
            /\ runs[i].id \in {1, 2} =>
                 /\ runs[i].count >= 1
                 /\ Len(runs[i].params) = 2 * runs[i].count
            /\ runs[i].id = 7 => runs[i].word = 7
       /\ \A i \in 1..(Len(runs) - 1) :
            runs[i].id \in {1, 2} => runs[i + 1].id # runs[i].id
       /\ Len(encoded_commands) = Len(runs) + 2 * Len(points)
       /\ geometry.kind = "MultiPoint" =>
            /\ words = <<1 + 8 * Len(points)>>
            /\ Len(encoded_commands) = 1 + 2 * Len(points)
       /\ geometry.kind = "Point" =>
            encoded_commands = <<9, Zigzag(points[1][1]), Zigzag(points[1][2])>>
       /\ geometry.kind \in {"Line", "MultiLine"} =>
            words = LineWords(geometry.parts)

\* two lines were encoded, the first of three points, so with a LineTo run
\* of count 2 followed by the MoveTo of the second line
C13_Witness ==
  /\ gresult = "Ok"
  /\ geometry.kind = "MultiLine" /\ Len(geometry.parts) = 2
  /\ Len(geometry.parts[1]) = 3
  /\ encoded_commands[4] = 2 + 8 * 2

\* ------------------------------------------------------------------------
\* The orientation of rings
\* ------------------------------------------------------------------------

\* sum over i of x_i * y_(i+1) - x_(i+1) * y_i, closing last to first
RECURSIVE ShoelaceTo(_, _)
ShoelaceTo(ring, k) ==
  IF k = 0 THEN 0
  ELSE LET j == IF k = Len(ring) THEN 1 ELSE k + 1 IN
       ShoelaceTo(ring, k - 1) + ring[k][1] * ring[j][2] - ring[j][1] * ring[k][2]

Shoelace(ring) == ShoelaceTo(ring, Len(ring))

\* the products and partial sums of the ring's area are in range
AreaFits(ring) == ~AreaAcc(AreaTerms(ring), 2 * Len(ring)).ovf

\* C9: for every Polygon whose rings all have at least 3 vertices, and
\* coordinates that keep the shoelace sum in range, encode succeeds iff the
\* shoelace sum of the exterior ring is strictly positive and that of every
\* interior ring strictly negative, and fails with InvalidPolygonGeometry
\* otherwise.
C9_RingOrientation ==
  /\ gpc = "done"
  /\ geometry.kind = "Polygon"
  /\ \A i \in 1..Len(geometry.parts) :
       Len(geometry.parts[i]) >= 3 /\ AreaFits(geometry.parts[i])
  => LET oriented ==
           /\ Shoelace(geometry.parts[1]) > 0
           /\ \A i \in 2..Len(geometry.parts) : Shoelace(geometry.parts[i]) < 0
     IN /\ gresult = "Ok" <=> oriented
        /\ ~oriented => gresult = "InvalidPolygonGeometry"

\* a polygon with an interior ring was accepted, its rings wound oppositely
C9_Witness ==
  /\ gresult = "Ok"
  /\ geometry.kind = "Polygon" /\ Len(geometry.parts) = 2
  /\ Shoelace(geometry.parts[1]) > 0 /\ Shoelace(geometry.parts[2]) < 0

\* ------------------------------------------------------------------------
\* The order of validation
\* ------------------------------------------------------------------------

\* the error of part i taken alone, "" for none: emptiness, then the
\* minimum length, then for a ring the signed area
PartError(kind, i, part) ==
  IF kind = "MultiLine"
    THEN IF Len(part) = 0 THEN "EmptyLineGeometry"
         ELSE IF Len(part) < 2 THEN "InvalidLineGeometry"
         ELSE ""
    ELSE IF Len(part) = 0 THEN "EmptyPolygonGeometry"
         ELSE IF Len(part) < 3 THEN "InvalidPolygonGeometry"
         ELSE IF Shoelace(part) = 0 THEN "InvalidPolygonGeometry"
         ELSE IF i = 1 /\ Shoelace(part) < 0 THEN "InvalidPolygonGeometry"
         ELSE IF i > 1 /\ Shoelace(part) > 0 THEN "InvalidPolygonGeometry"
         ELSE ""

EmptinessError(kind) ==
  IF kind = "MultiLine" THEN "EmptyLineGeometry" ELSE "EmptyPolygonGeometry"

\* C10 as stated: a MultiLine or Polygon that has an empty line or ring
\* and, in another line or ring, a violation of the minimum length or of
\* the signed area fails with the emptiness error, wherever the empty part
\* is.
C10_EmptinessFirst ==
  /\ gpc = "done"
  /\ geometry.kind \in {"MultiLine", "Polygon"}
  /\ \E i, j \in 1..Len(geometry.parts) :
       /\ i # j
       /\ Len(geometry.parts[i]) = 0
       /\ PartError(geometry.kind, j, geometry.parts[j])
            \notin {"", EmptinessError(geometry.kind)}
  => gresult = EmptinessError(geometry.kind)

\* C10 as amended: the lines of a MultiLine, and the rings of a Polygon
\* from the exterior ring on, are validated in input order, each for
\* emptiness, then minimum length, then (rings) signed area; encode returns
\* the error of the first part that has one, so the emptiness error exactly
\* when the first invalid part is an empty one, and succeeds when no part
\* has an error (coordinates keeping the shoelace sums in range).
C10_FirstInvalidPart ==
  /\ gpc = "done"
  /\ geometry.kind \in {"MultiLine", "Polygon"}
  /\ Len(geometry.parts) > 0
  /\ geometry.kind = "Polygon" =>
       \A i \in 1..Len(geometry.parts) :
         Len(geometry.parts[i]) >= 3 => AreaFits(geometry.parts[i])
  => LET bad == {i \in 1..Len(geometry.parts) :
                   PartError(geometry.kind, i, geometry.parts[i]) # ""}
     IN IF bad = {} THEN gresult = "Ok"
        ELSE LET first == CHOOSE i \in bad : \A j \in bad : i <= j IN
             gresult = PartError(geometry.kind, first, geometry.parts[first])

\* a polygon whose exterior ring is too short and whose interior ring is
\* empty was rejected for the exterior ring
C10_Witness ==
  /\ gpc = "done"
  /\ geometry.kind = "Polygon" /\ Len(geometry.parts) = 2
  /\ Len(geometry.parts[1]) = 2 /\ Len(geometry.parts[2]) = 0
  /\ gresult = "InvalidPolygonGeometry"

\* ------------------------------------------------------------------------
\* Values and features
\* ------------------------------------------------------------------------

\* A Value is its variant and its payload, written as text.
Val(variant, payload) == [variant |-> variant, payload |-> payload]

\* == of f32 and f64: a NaN equals nothing, the two zeros equal each other
FloatEq(a, b) ==
  /\ a # "NaN" /\ b # "NaN"
  /\ (a = b \/ {a, b} = {"0.0", "-0.0"})

\* the derived PartialEq of Value: the same variant and equal payloads
ValueEq(v, w) ==
  /\ v.variant = w.variant
  /\ IF v.variant \in {"Float", "Double"} THEN FloatEq(v.payload, w.payload)
     ELSE v.payload = w.payload

\* position comparing the payloads only, whatever the variants
Position_payload(table, value) ==
  IF \E i \in 1..Len(table) : table[i].payload = value.payload
    THEN CHOOSE i \in 1..Len(table) :
           /\ table[i].payload = value.payload
           /\ \A j \in 1..(i - 1) : table[j].payload # value.payload
    ELSE 0

\* values.iter().position(|v| v == value): the first index of an equal
\* entry, 0 for None
Position(table, value) ==
  IF \E i \in 1..Len(table) : ValueEq(table[i], value)
    THEN CHOOSE i \in 1..Len(table) :
           /\ ValueEq(table[i], value)
           /\ \A j \in 1..(i - 1) : ~ValueEq(table[j], value)
    ELSE 0

\* Feature::new and the tags added to it, with the id the caller has set
NewFeature(id, tags) == [id |-> id, tags |-> tags, encoded_tags |-> <<>>]

\* the geometry of every feature of the model: that of the tests' feature
TestGeometry == [type |-> "UNKNOWN", commands |-> <<>>]

\* ------------------------------------------------------------------------
\* Inputs of Layer::new
\* ------------------------------------------------------------------------

\* most features of a layer
MaxFeatures == 2

\* most tags of a layer, over all its features
MaxTags == 3

Keys == {"a", "b"}

Vals == {Val("Int", "1"), Val("SInt", "1"), Val("Float", "0.0"),
         Val("Float", "-0.0"), Val("Float", "NaN")}

\* every key with one value, and one key with every value
Tags == {<<k, Val("Int", "1")>> : k \in Keys} \cup {<<"a", v>> : v \in Vals}

\* every key with one value
KeyTags == {<<k, Val("Int", "1")>> : k \in Keys}

Ids == {<<>>, <<0>>, <<1>>}

\* fs is a list of at most MaxFeatures features with ids in I and at most
\* MaxTags tags in all, each in T
IsFeatures(fs, I, T) ==
  \E k \in 0..MaxFeatures :
    \E lens \in [1..k -> 0..MaxTags] :
      /\ SumTo(lens, k) <= MaxTags
      /\ \E flat \in [1..SumTo(lens, k) -> T], fids \in [1..k -> I] :
           fs = [i \in 1..k |-> NewFeature(fids[i], SplitParts(flat, lens)[i])]

\* ------------------------------------------------------------------------
\* Layer::new
\* ------------------------------------------------------------------------

\* the layers of the model are built under this name
LayerName == "test"

LInit ==
  /\ \/ IsFeatures(features, {<<>>}, Tags)
     \/ IsFeatures(features, Ids, KeyTags)
  /\ lpc = "new"
  /\ fi = 1
  /\ ti = 1
  /\ keys = <<>>
  /\ key_lookup = <<>>
  /\ values = <<>>
  /\ key_indices = {}
  /\ encoded_features = <<>>
  /\ ids = {}
  /\ lresult = <<"none">>
  /\ layer = <<>>
  /\ GIdle
  /\ TIdle

\* encoded_tags.push(word) of feature i
PushTag(fs, i, word) ==
  [fs EXCEPT ![i].encoded_tags = Append(@, word)]

\* Layer::new: an empty feature list is rejected, otherwise the first pass
\* starts
LayerNew ==
  /\ lpc = "new"
  /\ IF Len(features) = 0
       THEN /\ lpc' = "done"
            /\ lresult' = <<"EmptyLayer">>
       ELSE /\ lpc' = "tags"
            /\ UNCHANGED lresult
  /\ UNCHANGED <<features, fi, ti, keys, key_lookup, values, key_indices,
                 encoded_features, ids, layer, gvars, tvars>>

\* encode_features_tags, one tag of the feature at hand: the key is looked
\* up or interned and its index pushed; a key index seen before in this
\* feature ends the construction; the value is looked up or appended and
\* its index pushed. Indices count from 0.
InternTag ==
  /\ lpc = "tags" /\ fi <= Len(features) /\ ti <= Len(features[fi].tags)
  /\ LET key == features[fi].tags[ti][1]
         value == features[fi].tags[ti][2]
         hit == key \in DOMAIN key_lookup
         key_idx == IF hit THEN key_lookup[key] ELSE Len(keys)
         keys1 == IF hit THEN keys ELSE Append(keys, key)
         lookup1 == IF hit THEN key_lookup
                    ELSE [k \in DOMAIN key_lookup \cup {key} |->
                            IF k = key THEN key_idx ELSE key_lookup[k]]
         fs1 == PushTag(features, fi, key_idx)
         pos == Position(values, value)
         value_idx == IF pos # 0 THEN pos - 1 ELSE Len(values)
     IN /\ keys' = keys1
        /\ key_lookup' = lookup1
        /\ IF key_idx \in key_indices
             THEN /\ lpc' = "done"
                  /\ lresult' = <<"IdenticalAttributeKeys", keys1[Len(keys1)]>>
                  /\ features' = fs1
                  /\ UNCHANGED <<ti, values, key_indices>>
             ELSE /\ key_indices' = key_indices \cup {key_idx}
                  /\ values' = IF pos # 0 THEN values ELSE Append(values, value)
                  /\ features' = PushTag(fs1, fi, value_idx)
                  /\ ti' = ti + 1
                  /\ UNCHANGED <<lpc, lresult>>
  /\ UNCHANGED <<fi, encoded_features, ids, layer, gvars, tvars>>

\* encode_features_tags, the end of a feature: the assertion on the length
\* of its encoded_tags, then the next feature, or after the last one the
\* second pass
EndFeature ==
  /\ lpc = "tags" /\ fi <= Len(features) /\ ti > Len(features[fi].tags)
  /\ IF Len(features[fi].encoded_tags) % 2 # 0
       THEN /\ lpc' = "done"
            /\ lresult' = <<"panic">>
            /\ UNCHANGED <<fi, ti, key_indices>>
       ELSE /\ lpc' = IF fi = Len(features) THEN "features" ELSE "tags"
            /\ fi' = IF fi = Len(features) THEN 1 ELSE fi + 1
            /\ ti' = 1
            /\ key_indices' = {}
            /\ UNCHANGED lresult
  /\ UNCHANGED <<features, keys, key_lookup, values, encoded_features, ids,
                 layer, gvars, tvars>>

\* the lowered form of a feature
Lowered(feature) ==
  [id |-> IF feature.id = <<>> THEN 0 ELSE feature.id[1],
   tags |-> feature.encoded_tags,
   type_pb |-> TestGeometry.type,
   geometry |-> TestGeometry.commands]

\* the insertion of feature.id.unwrap_or(0): a feature without id counts
\* as one of id 0
InsertId_unwrap(feature, seen) ==
  LET id == IF feature.id = <<>> THEN 0 ELSE feature.id[1] IN
    [dup |-> id \in seen, id |-> id, ids |-> seen \cup {id}]

\* if let Some(id) = feature.id { if !ids.insert(id) {..} }: whether the id
\* of the feature is a declared one seen before, that id, and the ids seen
\* after it
InsertId(feature, seen) ==
  IF feature.id = <<>> THEN [dup |-> FALSE, id |-> 0, ids |-> seen]
  ELSE [dup |-> feature.id[1] \in seen, id |-> feature.id[1],
        ids |-> seen \cup {feature.id[1]}]

\* encode_features, one feature: a declared id seen before ends the
\* construction, otherwise the feature is lowered
EncodeFeature ==
  /\ lpc = "features" /\ fi <= Len(features)
  /\ LET feature == features[fi]
         ins == InsertId(feature, ids)
     IN IF ins.dup
          THEN /\ lpc' = "done"
               /\ lresult' = <<"IdenticalFeatureIds", ins.id>>
               /\ UNCHANGED <<fi, ids, encoded_features>>
          ELSE /\ ids' = ins.ids
               /\ encoded_features' = Append(encoded_features, Lowered(feature))
               /\ fi' = fi + 1
               /\ UNCHANGED <<lpc, lresult>>
  /\ UNCHANGED <<features, ti, keys, key_lookup, values, key_indices, layer,
                 gvars, tvars>>

\* Layer::new returns the layer
LayerDone ==
  /\ lpc = "features" /\ fi > Len(features)
  /\ lpc' = "done"
  /\ lresult' = <<"Ok">>
  /\ layer' = [name |-> LayerName, features |-> encoded_features,
               keys |-> keys, values |-> values, extent |-> 4096]
  /\ UNCHANGED <<features, fi, ti, keys, key_lookup, values, key_indices,
                 encoded_features, ids, gvars, tvars>>

LNext ==
  \/ LayerNew
  \/ InternTag
  \/ EndFeature
  \/ EncodeFeature
  \/ LayerDone

SpecLayer == LInit /\ [][LNext]_vars

\* ------------------------------------------------------------------------
\* Repeated keys
\* ------------------------------------------------------------------------

\* the tags of a feature supply some key twice
RepeatsKey(tags) ==
  \E i, j \in 1..Len(tags) : i < j /\ tags[i][1] = tags[j][1]

\* the key of the first tag whose key an earlier tag of the feature has
RepeatedKey(tags) ==
  LET j == CHOOSE j \in 1..Len(tags) :
             /\ \E i \in 1..(j - 1) : tags[i][1] = tags[j][1]
             /\ \A m \in 1..(j - 1) : \A i \in 1..(m - 1) : tags[i][1] # tags[m][1]
  IN tags[j][1]

\* the first feature that supplies some key twice
Offending(fs) ==
  CHOOSE f \in 1..Len(fs) :
    /\ RepeatsKey(fs[f].tags)
    /\ \A g \in 1..(f - 1) : ~RepeatsKey(fs[g].tags)

\* C4: whenever Layer::new fails with IdenticalAttributeKeys(key), the key
\* carried is the key that is repeated in the offending feature, the first
\* feature in input order that supplies some key twice, whatever was
\* interned before it.
C4_CarriedKey ==
  lresult[1] = "IdenticalAttributeKeys" =>
    /\ \E f \in 1..Len(features) : RepeatsKey(features[f].tags)
    /\ lresult[2] = RepeatedKey(features[Offending(features)].tags)

\* ------------------------------------------------------------------------
\* C5: in every layer built, the tag index list of each feature has twice
\* as many entries as the feature has tags, and its i-th pair is in bounds
\* and resolves through the key table and the value table to the i-th
\* (key, value) the caller added to the feature, so that values of
\* different variants with the same payload resolve to different entries.
\* ------------------------------------------------------------------------
C5_TagsResolve ==
  lresult = <<"Ok">> =>
    /\ Len(layer.features) = Len(features)
    /\ \A f \in 1..Len(features) :
         LET tags == features[f].tags
             enc == layer.features[f].tags
         IN /\ Len(enc) = 2 * Len(tags)
            /\ \A i \in 1..Len(tags) :
                 /\ enc[2 * i - 1] \in 0..(Len(layer.keys) - 1)
                 /\ enc[2 * i] \in 0..(Len(layer.values) - 1)
                 /\ layer.keys[enc[2 * i - 1] + 1] = tags[i][1]
                 /\ layer.values[enc[2 * i] + 1] = tags[i][2]

\* ------------------------------------------------------------------------
\* The tables of a layer
\* ------------------------------------------------------------------------

\* the tags of the features in input order, up to tag t of feature f
RECURSIVE TagsUpTo(_, _, _)
TagsUpTo(fs, f, t) ==
  IF f = 0 THEN <<>>
  ELSE IF t = 0 THEN TagsUpTo(fs, f - 1, IF f = 1 THEN 0 ELSE Len(fs[f - 1].tags))
  ELSE Append(TagsUpTo(fs, f, t - 1), fs[f].tags[t])

AllTags(fs) ==
  IF fs = <<>> THEN <<>> ELSE TagsUpTo(fs, Len(fs), Len(fs[Len(fs)].tags))

\* the entries of xs that are flagged, among the first n, in order
RECURSIVE Select(_, _, _)
Select(xs, flags, n) ==
  IF n = 0 THEN <<>>
  ELSE IF flags[n] THEN Append(Select(xs, flags, n - 1), xs[n])
  ELSE Select(xs, flags, n - 1)

\* the keys that no earlier key equals, in order
FirstKeys(ks) ==
  Select(ks, [n \in 1..Len(ks) |-> ~\E q \in 1..(n - 1) : ks[q] = ks[n]], Len(ks))

\* the values that no earlier value equals, in order
FirstValues(vs) ==
  Select(vs, [n \in 1..Len(vs) |-> ~\E q \in 1..(n - 1) : ValueEq(vs[q], vs[n])],
         Len(vs))

\* the tables hold no two equal entries
NoDuplicates(ks, vs) ==
  /\ \A i, j \in 1..Len(ks) : i # j => ks[i] # ks[j]
  /\ \A i, j \in 1..Len(vs) : i # j => ~ValueEq(vs[i], vs[j])

C6_TablesInv ==
  /\ NoDuplicates(keys, values)
  /\ lresult = <<"Ok">> =>
       LET all == AllTags(features)
           ks == [i \in 1..Len(all) |-> all[i][1]]
           vs == [i \in 1..Len(all) |-> all[i][2]]
       IN /\ NoDuplicates(layer.keys, layer.values)
          /\ layer.keys = FirstKeys(ks)
          /\ layer.values = FirstValues(vs)
          /\ \A f, g \in 1..Len(features) :
               \A i \in 1..Len(features[f].tags), j \in 1..Len(features[g].tags) :
                 /\ features[f].tags[i][1] = features[g].tags[j][1] =>
                      layer.features[f].tags[2 * i - 1] = layer.features[g].tags[2 * j - 1]
                 /\ ValueEq(features[f].tags[i][2], features[g].tags[j][2]) =>
                      layer.features[f].tags[2 * i] = layer.features[g].tags[2 * j]

\* a step of the interning only appends to the tables and to the index lists
C6_AppendOnly ==
  /\ IsPrefix(keys, keys')
  /\ IsPrefix(values, values')
  /\ \A f \in 1..Len(features) :
       IsPrefix(features[f].encoded_tags, features'[f].encoded_tags)

RepeatsId(fs, j) ==
  /\ fs[j].id # <<>>
  /\ \E i \in 1..(j - 1) : fs[i].id = fs[j].id

\* C7: Layer::new returns EmptyLayer iff the feature list is empty;
\* otherwise, if no feature repeats a key, it returns IdenticalFeatureIds(id)
\* iff two features with a declared id share it, id being that of the
\* first feature whose declared id equals that of an earlier one; features
\* without an id never cause it and are lowered with id 0; on success the
\* layer holds the features in input order, with extent 4096.
C7_LayerNew ==
  lpc = "done" /\ lresult # <<"none">> =>
    /\ lresult = <<"EmptyLayer">> <=> features = <<>>
    /\ features # <<>> /\ (\A f \in 1..Len(features) : ~RepeatsKey(features[f].tags)) =>
         LET dups == {j \in 1..Len(features) : RepeatsId(features, j)} IN
           IF dups # {}
             THEN LET first == CHOOSE j \in dups : \A m \in dups : j <= m IN
                  lresult = <<"IdenticalFeatureIds", features[first].id[1]>>
             ELSE /\ lresult = <<"Ok">>
                  /\ layer.extent = 4096
                  /\ Len(layer.features) = Len(features)
                  /\ \A f \in 1..Len(features) :
                       /\ layer.features[f].id =
                            IF features[f].id = <<>> THEN 0 ELSE features[f].id[1]
                       /\ layer.features[f].tags = features[f].encoded_tags
                       /\ Len(features[f].encoded_tags) = 2 * Len(features[f].tags)

\* a layer was built of a feature without id and a feature of id 0
C7_Witness ==
  /\ lresult = <<"Ok">>
  /\ Len(features) = 2
  /\ features[1].id = <<>> /\ features[2].id = <<0>>

\* ------------------------------------------------------------------------
\* Tile::new
\* ------------------------------------------------------------------------

\* most layers of a tile
MaxLayers == 3

\* names that differ in one byte only
LayerNames == {"dup", "Dup"}

\* Layers as Layer::new returns them and as the caller may have changed
\* them through the public field extent. With one feature each, they differ
\* in name and extent.
LayerInputs ==
  {[name |-> n, features |-> <<Lowered(NewFeature(<<>>, <<>>))>>, keys |-> <<>>,
    values |-> <<>>, extent |-> e] : n \in LayerNames, e \in {4096, 512}}

TInit ==
  /\ layers \in SeqsUpTo(LayerInputs, MaxLayers)
  /\ tpc = "new"
  /\ li = 1
  /\ names = {}
  /\ tresult = <<"none">>
  /\ tile = <<>>
  /\ sink = <<>>
  /\ sink_error = "none"
  /\ wresult = <<"none">>
  /\ GIdle
  /\ LIdle

\* Tile::new: an empty layer list is rejected, otherwise the loop over the
\* layers starts
TileNew ==
  /\ tpc = "new"
  /\ IF Len(layers) = 0
       THEN /\ tpc' = "done"
            /\ tresult' = <<"EmptyTile">>
       ELSE /\ tpc' = "names"
            /\ UNCHANGED tresult
  /\ UNCHANGED <<layers, li, names, tile, sink, sink_error, wresult, gvars, lvars>>

\* the insertion of the name without regard to case
InsertName_folded(l, seen) ==
  LET folded == IF l.name = "Dup" THEN "dup" ELSE l.name IN
    [dup |-> folded \in seen, names |-> seen \cup {folded}]

\* names.insert(&layer.name): whether the name was there, and the names after
InsertName(l, seen) == [dup |-> l.name \in seen, names |-> seen \cup {l.name}]

\* one layer of the loop: a name seen before ends the construction
CheckName ==
  /\ tpc = "names" /\ li <= Len(layers)
  /\ LET ins == InsertName(layers[li], names) IN
       IF ins.dup
         THEN /\ tpc' = "done"
              /\ tresult' = <<"IdenticalLayerNames", layers[li].name>>
              /\ UNCHANGED <<li, names>>
         ELSE /\ names' = ins.names
              /\ li' = li + 1
              /\ UNCHANGED <<tpc, tresult>>
  /\ UNCHANGED <<layers, tile, sink, sink_error, wresult, gvars, lvars>>

\* Tile::new returns the tile
TileDone ==
  /\ tpc = "names" /\ li > Len(layers)
  /\ tpc' = "done"
  /\ tresult' = <<"Ok">>
  /\ tile' = [layers |-> layers]
  /\ UNCHANGED <<layers, li, names, sink, sink_error, wresult, gvars, lvars>>

\* Into<pbf_tile::Layer> for Layer: the layer with the version of the format
Layer_into(l) ==
  [version |-> 2, name |-> l.name, features |-> l.features, keys |-> l.keys,
   values |-> l.values, extent |-> l.extent]

\* Into<pbf::Tile> for Tile
Tile_into(t) == [layers |-> [i \in 1..Len(t.layers) |-> Layer_into(t.layers[i])]]

\* the errors a writer may answer with
IoErrors == {"BrokenPipe", "WriteZero"}

\* the end of Tile::write on the Result of write_message: unwrap() panics on
\* an Err, with the error in the message of the panic, and the function,
\* which returns (), has no other way to end than to return
Unwrapped(r) == IF r = "none" THEN <<"returned">> ELSE <<"panic", r>>

\* Tile::write on the tile that Tile::new returned: the message is written
\* layer by layer to the writer, which takes all of it, or answers an error
\* after the first n layers.
TileWrite ==
  /\ tpc = "done" /\ tresult = <<"Ok">> /\ wresult = <<"none">>
  /\ LET message == Tile_into(tile) IN
       \E n \in 0..Len(message.layers) :
         \E r \in {"none"} \cup IoErrors :
           /\ r = "none" => n = Len(message.layers)
           /\ r # "none" => n < Len(message.layers)
           /\ sink' = SubSeq(message.layers, 1, n)
           /\ sink_error' = r
           /\ wresult' = Unwrapped(r)
  /\ UNCHANGED <<layers, tpc, li, names, tresult, tile, gvars, lvars>>

TNext ==
  \/ TileNew
  \/ CheckName
  \/ TileDone
  \/ TileWrite

SpecTile == TInit /\ [][TNext]_vars

\* ------------------------------------------------------------------------
\* C8: Tile::new returns EmptyTile iff the layer list is empty; otherwise
\* IdenticalLayerNames(name) iff two layers have byte-identical names, name
\* being that of the first layer whose name equals that of an earlier one;
\* otherwise a Tile of exactly the given layers in input order.
\* ------------------------------------------------------------------------
C8_TileNew ==
  tpc = "done" /\ tresult # <<"none">> =>
    /\ tresult = <<"EmptyTile">> <=> layers = <<>>
    /\ layers # <<>> =>
         LET dups == {j \in 1..Len(layers) :
                        \E i \in 1..(j - 1) : layers[i].name = layers[j].name}
         IN IF dups # {}
              THEN LET first == CHOOSE j \in dups : \A m \in dups : j <= m IN
                   tresult = <<"IdenticalLayerNames", layers[first].name>>
              ELSE tresult = <<"Ok">> /\ tile.layers = layers

\* a tile was refused for its third layer, after two layers whose names
\* differ in one byte
C8_Witness ==
  /\ tpc = "done"
  /\ tresult[1] = "IdenticalLayerNames" /\ Len(layers) = 3
  /\ layers[1].name # layers[2].name

\* ------------------------------------------------------------------------
\* C12: when the writer fails during Tile::write, the call ends with that
\* very error as its error outcome: the failure is neither turned into
\* another outcome, a panic say, nor absorbed.
\* ------------------------------------------------------------------------
C12_SinkErrorPropagated ==
  sink_error # "none" => wresult = <<"Err", sink_error>>

====
